---- MODULE Spec2Model ----
(***************************************************************************)
(* A model of the middle end of pilota-build: the two-pass name resolver   *)
(* and IR lowering (resolve.rs), the codegen type transformers             *)
(* (middle/ty.rs) and the package tree (codegen/pkg_tree.rs).              *)
(*                                                                         *)
(* Option<T> is modelled as a sequence of length 0 (None) or 1 (Some).     *)
(* A Symbol is the sequence of its characters.                             *)
(***************************************************************************)
EXTENDS Integers, Sequences, FiniteSets, TLC

VARIABLES
    \* ---- package tree (codegen/pkg_tree.rs)
    pkgs,             \* the &[ItemPath] handed to PkgNode::from_pkgs
    pkg_tree,         \* the Arc<[PkgNode]> it returns
    pkg_pc,           \* "idle" | "start" | "done" | "panic"
    \* ---- codegen types (middle/ty.rs)
    cg_ty,            \* the RIR TyKind being converted
    cg_tf,            \* which TyTransformer: "Default" | "Const"
    cx,               \* the ambient context's codegen_ty, DefId -> CodegenTy
    cg_out,           \* the CodegenTy produced
    cg_lazy,          \* Option<bool>: the answer of should_lazy_static
    cg_pc             \* "idle" | "start" | "converted" | "asked" | "panic"

pvars == <<pkgs, pkg_tree, pkg_pc>>
cvars == <<cg_ty, cg_tf, cx, cg_out, cg_lazy, cg_pc>>

None == <<>>
Some(x) == <<x>>
IsSome(o) == o # <<>>
Unwrap(o) == o[1]

Range(s) == {s[i] : i \in DOMAIN s}

RECURSIVE SeqsUpTo(_, _)
\* every sequence over S of length at most n
SeqsUpTo(S, n) ==
    IF n = 0 THEN {<<>>}
    ELSE LET shorter == SeqsUpTo(S, n - 1)
         IN  shorter \cup {<<x>> \o s : x \in S, s \in {t \in shorter : Len(t) = n - 1}}

RECURSIVE FlatMap(_, _)
\* the concatenation of F[s[1]], F[s[2]], ...  (F a function to sequences)
FlatMap(F, s) == IF s = <<>> THEN <<>> ELSE F[Head(s)] \o FlatMap(F, Tail(s))

(***************************************************************************)
(* Package tree: codegen/pkg_tree.rs                                       *)
(***************************************************************************)

MaxPkgs == 3          \* longest package list tried
MaxPathLen == 2       \* longest package path tried

PkgSegs == {<<"a">>, <<"b">>}
PkgPaths == SeqsUpTo(PkgSegs, MaxPathLen)

\* PkgNode { path, children }
PkgNode(path, children) == [path |-> path, children |-> children]

RECURSIVE group_by(_)
\* itertools' group_by with key p.first().unwrap(): consecutive elements with
\* the same key form one group; a key that comes back later opens a new group
group_by(ps) ==
    IF ps = <<>> THEN <<>>
    ELSE LET k    == Head(ps)[1]
             rest == group_by(Tail(ps))
         IN  IF rest # <<>> /\ rest[1].key = k
             THEN <<[key |-> k, group |-> <<Head(ps)>> \o rest[1].group]>> \o Tail(rest)
             ELSE <<[key |-> k, group |-> <<Head(ps)>>]>> \o rest

\* v.filter(|p| p.len() > 1).map(|p| ItemPath::from(&p[1..]))
Remainders(group) ==
    LET long == SelectSeq(group, LAMBDA p : Len(p) > 1)
    IN  [i \in DOMAIN long |-> Tail(long[i])]

RECURSIVE from_pkgs(_, _)
from_pkgs(base_path, ps) ==
    LET groups == group_by(ps)
    IN  [i \in DOMAIN groups |->
            LET path == base_path \o <<groups[i].key>>
            IN  PkgNode(path, from_pkgs(path, Remainders(groups[i].group)))]

\* PkgNode::ident
PkgNode_ident(node) == node.path[Len(node.path)]

InitPkg ==
    /\ pkgs \in SeqsUpTo(PkgPaths, MaxPkgs)
    /\ pkg_tree = <<>>
    /\ pkg_pc = "start"

IdlePkg ==
    /\ pkgs = <<>>
    /\ pkg_tree = <<>>
    /\ pkg_pc = "idle"

\* PkgNode::from_pkgs(pkgs)
PkgFromPkgs ==
    /\ pkg_pc = "start"
    /\ \A i \in DOMAIN pkgs : pkgs[i] # <<>>
    /\ pkg_tree' = from_pkgs(<<>>, pkgs)
    /\ pkg_pc' = "done"
    /\ UNCHANGED pkgs

\* p.first().unwrap() on an empty path
PkgFromPkgsPanic ==
    /\ pkg_pc = "start"
    /\ \E i \in DOMAIN pkgs : pkgs[i] = <<>>
    /\ pkg_pc' = "panic"
    /\ UNCHANGED <<pkgs, pkg_tree>>

(***************************************************************************)
(* RIR types (middle/ty.rs): Ty { kind, tags_id }.  A TyKind is a record   *)
(* [kind, args, path]: args are the element Tys of a container, path is    *)
(* Some(Path{kind, did}) for TyKind::Path.                                 *)
(***************************************************************************)

PrimKinds == {"String", "Void", "U8", "Bool", "Bytes", "I8", "I16", "I32", "I64",
              "UInt32", "UInt64", "F32", "F64"}

TyKind(kind, args, path) == [kind |-> kind, args |-> args, path |-> path]
Ty(kind, tags_id) == [kind |-> kind, tags_id |-> tags_id]
Path(kind, did) == [kind |-> kind, did |-> did]

(***************************************************************************)
(* Codegen types: middle/ty.rs.  A CodegenTy is [tag, args, adt]; adt is   *)
(* Some(AdtDef{did, kind, inner}) for CodegenTy::Adt, inner being the      *)
(* payload of AdtKind::NewType.                                            *)
(***************************************************************************)

MaxTyDepth == 2       \* deepest nesting of containers in a converted TyKind
MaxCgDepth == 1       \* deepest nesting of a CodegenTy handed to should_lazy_static

CodegenTy(tag, args) == [tag |-> tag, args |-> args, adt |-> None]
AdtDef(did, kind, inner) == [did |-> did, kind |-> kind, inner |-> inner]
Adt(def) == [tag |-> "Adt", args |-> <<>>, adt |-> Some(def)]

\* todo!() and every other panic of a conversion: the conversion yields no type
Panicked == [tag |-> "panic!", args |-> <<>>, adt |-> None]

\* a constructor applied to already evaluated arguments: a panic while
\* evaluating an argument unwinds through it
Construct(tag, args) ==
    IF \E i \in DOMAIN args : args[i] = Panicked THEN Panicked
    ELSE CodegenTy(tag, args)

RECURSIVE should_lazy_static_wrong(_)
\* a faulty variant of the one below: HashSet forgotten as not lazily initialised, Map left out
should_lazy_static_wrong(c) ==
    CASE c.tag \in {"String", "LazyStaticRef", "StaticRef", "Vec", "Set"} -> TRUE
      [] c.tag = "Adt" /\ Unwrap(c.adt).kind = "NewType" ->
            should_lazy_static_wrong(Unwrap(Unwrap(c.adt).inner))
      [] OTHER -> FALSE

RECURSIVE should_lazy_static(_)
should_lazy_static(c) ==
    CASE c.tag \in {"String", "LazyStaticRef", "StaticRef", "Vec", "Map"} -> TRUE
      [] c.tag = "Adt" /\ Unwrap(c.adt).kind = "NewType" ->
            should_lazy_static(Unwrap(Unwrap(c.adt).inner))
      [] OTHER -> FALSE

RECURSIVE codegen_item_ty(_, _, _)

\* ---- the default methods of trait TyTransformer
TyTransformer_string(self) == CodegenTy("String", <<>>)
TyTransformer_bytes(self) == CodegenTy("Vec", <<CodegenTy("U8", <<>>)>>)
TyTransformer_vec(self, c, ty) == Construct("Vec", <<codegen_item_ty(self, c, ty.kind)>>)
TyTransformer_set(self, c, ty) == Construct("Set", <<codegen_item_ty(self, c, ty.kind)>>)
TyTransformer_map(self, c, key, value) ==
    Construct("Map", <<codegen_item_ty(self, c, key.kind), codegen_item_ty(self, c, value.kind)>>)
\* with_cx(|cx| cx.codegen_ty(did))
TyTransformer_path(self, c, p) == c[p.did]

\* ---- impl TyTransformer for ConstTyTransformer
ConstTyTransformer_string(self) == CodegenTy("Str", <<>>)

\* a faulty variant of the one below: the elements converted by the default transformer
ConstTyTransformer_vec_default_elems(self, c, ty) ==
    Construct("StaticRef", <<Construct("Vec", <<codegen_item_ty("Default", c, ty.kind)>>)>>)

ConstTyTransformer_vec(self, c, ty) ==
    Construct("StaticRef", <<Construct("Vec", <<codegen_item_ty(self, c, ty.kind)>>)>>)
ConstTyTransformer_set(self, c, ty) ==
    Construct("StaticRef", <<Construct("Set", <<codegen_item_ty(self, c, ty.kind)>>)>>)
ConstTyTransformer_map(self, c, key, value) ==
    Construct("StaticRef",
        <<Construct("Map", <<codegen_item_ty(self, c, key.kind),
                             codegen_item_ty(self, c, value.kind)>>)>>)

\* ---- dynamic dispatch on the transformer `self`
tf_string(self) ==
    IF self = "Const" THEN ConstTyTransformer_string(self) ELSE TyTransformer_string(self)
tf_vec(self, c, ty) ==
    IF self = "Const" THEN ConstTyTransformer_vec(self, c, ty) ELSE TyTransformer_vec(self, c, ty)
tf_set(self, c, ty) ==
    IF self = "Const" THEN ConstTyTransformer_set(self, c, ty) ELSE TyTransformer_set(self, c, ty)
tf_map(self, c, key, value) ==
    IF self = "Const" THEN ConstTyTransformer_map(self, c, key, value)
    ELSE TyTransformer_map(self, c, key, value)

\* TyTransformer::codegen_item_ty; c is the ambient context's codegen_ty
codegen_item_ty(self, c, ty) ==
    CASE ty.kind = "String" -> tf_string(self)
      [] ty.kind = "Bytes"  -> TyTransformer_bytes(self)
      [] ty.kind \in {"Void", "U8", "Bool", "I8", "I16", "I32", "I64", "F64"} ->
            CodegenTy(ty.kind, <<>>)
      [] ty.kind = "Vec"    -> tf_vec(self, c, ty.args[1])
      [] ty.kind = "Set"    -> tf_set(self, c, ty.args[1])
      [] ty.kind = "Map"    -> tf_map(self, c, ty.args[1], ty.args[2])
      [] ty.kind = "Path"   -> TyTransformer_path(self, c, Unwrap(ty.path))
      [] ty.kind \in {"UInt32", "UInt64", "F32", "Arc"} -> Panicked    \* todo!()

to_codegen_item_ty(c, ty) == codegen_item_ty("Default", c, ty)
to_codegen_const_ty(c, ty) == codegen_item_ty("Const", c, ty)

\* ---- the inputs tried
CgDid == 0
MapKeyKinds == {"String", "I32"}

RirLeafKinds ==
    {TyKind(k, <<>>, None) : k \in PrimKinds} \cup {TyKind("Path", <<>>, Some(Path("Type", CgDid)))}

RECURSIVE RirTyKinds(_)
\* the TyKinds nested at most d deep; every Ty inside carries tags_id 0
RirTyKinds(d) ==
    IF d = 0 THEN RirLeafKinds
    ELSE LET inner == RirTyKinds(d - 1)
         IN  RirLeafKinds
             \cup {TyKind(k, <<Ty(e, 0)>>, None) : k \in {"Vec", "Set", "Arc"}, e \in inner}
             \cup {TyKind("Map", <<Ty(TyKind(k, <<>>, None), 0), Ty(e, 0)>>, None) :
                      k \in MapKeyKinds, e \in inner}

CgLeaves ==
    {CodegenTy(t, <<>>) : t \in {"String", "Str", "Void", "U8", "Bool", "I8", "I16", "I32",
                                 "I64", "UInt32", "UInt64", "F32", "F64"}}
    \cup {Adt(AdtDef(CgDid, k, None)) : k \in {"Struct", "Enum"}}

RECURSIVE CodegenTys(_)
CodegenTys(d) ==
    IF d = 0 THEN CgLeaves
    ELSE LET inner == CodegenTys(d - 1)
         IN  CgLeaves
             \cup {CodegenTy(t, <<e>>) :
                      t \in {"LazyStaticRef", "StaticRef", "Vec", "Set", "Arc"}, e \in inner}
             \cup {CodegenTy("Map", <<CodegenTy(k, <<>>), e>>) : k \in MapKeyKinds, e \in inner}
             \cup {Adt(AdtDef(CgDid, "NewType", Some(e))) : e \in inner}

\* what the ambient context answers for the one DefId the inputs name
CxChoices ==
    {[d \in {CgDid} |-> a] :
        a \in {Adt(AdtDef(CgDid, "Struct", None)), Adt(AdtDef(CgDid, "Enum", None)),
               Adt(AdtDef(CgDid, "NewType", Some(CodegenTy("String", <<>>)))),
               Adt(AdtDef(CgDid, "NewType", Some(CodegenTy("I32", <<>>))))}}

NoCx == [d \in {CgDid} |-> Panicked]

InitCodegen ==
    \/ /\ cg_pc = "start"
       /\ cg_ty \in {Some(k) : k \in RirTyKinds(MaxTyDepth)}
       /\ cg_tf \in {"Default", "Const"}
       /\ cx \in CxChoices
       /\ cg_out = Panicked
       /\ cg_lazy = None
    \/ /\ cg_pc = "converted"
       /\ cg_ty = None
       /\ cg_tf = "-"
       /\ cx = NoCx
       /\ cg_out \in CodegenTys(MaxCgDepth)
       /\ cg_lazy = None

IdleCodegen ==
    /\ cg_pc = "idle"
    /\ cg_ty = None
    /\ cg_tf = "-"
    /\ cx = NoCx
    /\ cg_out = Panicked
    /\ cg_lazy = None

\* TyKind::to_codegen_item_ty
ToCodegenItemTy ==
    /\ cg_pc = "start"
    /\ cg_tf = "Default"
    /\ LET out == to_codegen_item_ty(cx, Unwrap(cg_ty))
       IN  /\ cg_out' = out
           /\ cg_pc' = IF out = Panicked THEN "panic" ELSE "converted"
    /\ UNCHANGED <<cg_ty, cg_tf, cx, cg_lazy>>

\* TyKind::to_codegen_const_ty
ToCodegenConstTy ==
    /\ cg_pc = "start"
    /\ cg_tf = "Const"
    /\ LET out == to_codegen_const_ty(cx, Unwrap(cg_ty))
       IN  /\ cg_out' = out
           /\ cg_pc' = IF out = Panicked THEN "panic" ELSE "converted"
    /\ UNCHANGED <<cg_ty, cg_tf, cx, cg_lazy>>

\* CodegenTy::should_lazy_static
ShouldLazyStatic ==
    /\ cg_pc = "converted"
    /\ cg_lazy' = Some(should_lazy_static(cg_out))
    /\ cg_pc' = "asked"
    /\ UNCHANGED <<cg_ty, cg_tf, cx, cg_out>>

(***************************************************************************)
(* Symbols (symbol.rs) and the source IR the parser delivers (ir).         *)
(***************************************************************************)

ToLower ==
    [c \in {"A", "B", "C", "E", "M", "Q", "S", "T", "U", "X", "Y"} |->
        CASE c = "A" -> "a" [] c = "B" -> "b" [] c = "C" -> "c" [] c = "E" -> "e"
          [] c = "M" -> "m" [] c = "Q" -> "q" [] c = "S" -> "s" [] c = "T" -> "t"
          [] c = "U" -> "u" [] c = "X" -> "x" [] c = "Y" -> "y"]
IsUpper(c) == c \in DOMAIN ToLower
IsLower(c) == c # "_" /\ ~IsUpper(c)

\* a word starts at a lower-to-upper step, at the last capital of a run of
\* capitals that a lower-case letter follows, and after an underscore
snake_boundary(s, i) ==
    /\ i > 1
    /\ \/ s[i - 1] = "_"
       \/ IsLower(s[i - 1]) /\ IsUpper(s[i])
       \/ IsUpper(s[i - 1]) /\ IsUpper(s[i]) /\ i < Len(s) /\ IsLower(s[i + 1])
snake_char(c) == IF IsUpper(c) THEN ToLower[c] ELSE c

RECURSIVE snake_from(_, _, _)
\* the characters of s from position i on, out being what was produced so far
snake_from(s, i, out) ==
    IF i > Len(s) THEN out
    ELSE IF s[i] = "_" THEN snake_from(s, i + 1, out)
    ELSE snake_from(s, i + 1,
                    out \o (IF snake_boundary(s, i) /\ out # <<>> THEN <<"_">> ELSE <<>>)
                        \o <<snake_char(s[i])>>)

\* Symbol::to_snake_case
to_snake_case(sym) == snake_from(sym, 1, <<>>)

\* a Tags bag is the set of the type keys it holds
NoTags == {}
IrTy(kind, args, path, tags) == [kind |-> kind, args |-> args, path |-> path, tags |-> tags]
IrPrim(kind) == IrTy(kind, <<>>, <<>>, NoTags)
IrPath(segments) == IrTy("Path", <<>>, segments, NoTags)
IrField(id, name, kind, ty, tags) ==
    [id |-> id, name |-> name, kind |-> kind, ty |-> ty, tags |-> tags]
IrVariant(id, name, discr, fields, tags) ==
    [id |-> id, name |-> name, discr |-> discr, fields |-> fields, tags |-> tags]
IrArg(id, name, ty) == [id |-> id, name |-> name, ty |-> ty]
IrMethod(name, args, ret, oneway, exceptions, tags) ==
    [name |-> name, args |-> args, ret |-> ret, oneway |-> oneway,
     exceptions |-> exceptions, tags |-> tags]
\* ir::Literal: Path(p) | String | Int | Float | List(items) | Map(pairs)
IrLit(kind, path, items) == [kind |-> kind, path |-> path, items |-> items]

\* ir::Item { kind, tags } with the payload of every ItemKind side by side
IrItem(kind, name, tags, payload) ==
    [kind |-> kind, name |-> name, tags |-> tags,
     fields |-> payload.fields, variants |-> payload.variants,
     methods |-> payload.methods, extend |-> payload.extend,
     ty |-> payload.ty, lit |-> payload.lit, items |-> payload.items]
NoPayload ==
    [fields |-> <<>>, variants |-> <<>>, methods |-> <<>>, extend |-> <<>>,
     ty |-> None, lit |-> None, items |-> <<>>]
IrMessage(name, tags, fields) == IrItem("Message", name, tags, [NoPayload EXCEPT !.fields = fields])
IrEnum(name, tags, variants) == IrItem("Enum", name, tags, [NoPayload EXCEPT !.variants = variants])
IrService(name, tags, methods, extend) ==
    IrItem("Service", name, tags, [NoPayload EXCEPT !.methods = methods, !.extend = extend])
IrNewType(name, tags, ty) == IrItem("NewType", name, tags, [NoPayload EXCEPT !.ty = Some(ty)])
IrConst(name, tags, ty, lit) ==
    IrItem("Const", name, tags, [NoPayload EXCEPT !.ty = Some(ty), !.lit = Some(lit)])
IrMod(name, tags, items) == IrItem("Mod", name, tags, [NoPayload EXCEPT !.items = items])
IrUse == IrItem("Use", <<>>, NoTags, NoPayload)

IrFile(id, package, uses, items) ==
    [id |-> id, package |-> package, uses |-> uses, items |-> items]

(***************************************************************************)
(* The resolver: resolve.rs                                                *)
(***************************************************************************)

VARIABLES
    files,            \* the &[Arc<ir::File>] handed to resolve_files
    pc,               \* "idle" | "collect" | "lower" | "done" | "panic"
    idx,              \* position of the running pass in files
    frames,           \* the call stack of lower_file / lower_mod: what is left to lower
    panic_msg,        \* the message of the panic that ended the run
    did_counter,      \* Resolver.did_counter
    file_sym_map,     \* Resolver.file_sym_map: FileId -> SymbolTable
    def_modules,      \* Resolver.def_modules: DefId -> ModuleData
    blocks,           \* Resolver.blocks: pointers to the symbol tables in scope
    parent_node,      \* Resolver.parent_node: Option<DefId>
    nodes,            \* Resolver.nodes: DefId -> Node
    tags_id_counter,  \* Resolver.tags_id_counter
    tags,             \* Resolver.tags: TagId -> Tags
    cur_file,         \* Resolver.cur_file: Option<FileId>
    ir_files,         \* Resolver.ir_files: FileId -> ir::File
    out_files,        \* the lowered files: FileId -> rir::File
    result            \* Option<ResolveResult>

rvars == <<files, pc, idx, frames, panic_msg, did_counter, file_sym_map, def_modules, blocks,
           parent_node, nodes, tags_id_counter, tags, cur_file, ir_files, out_files, result>>

vars == <<pvars, cvars, rvars>>

\* ---- FxHashMap
EmptyMap == <<>>
Insert(map, k, v) == (k :> v) @@ map
ContainsKey(map, k) == k \in DOMAIN map
Get(map, k) == IF k \in DOMAIN map THEN Some(map[k]) ELSE None

\* DefId / TagId ::inc_one: the current value, and the counter after it
inc_one(counter) == [id |-> counter, next |-> counter + 1]

\* SymbolTable::default, ModuleData::default
SymbolTable == [value |-> EmptyMap, ty |-> EmptyMap]
ModuleData == [resolutions |-> SymbolTable]

\* enum ModuleId
ModuleId_File(file_id) == [tag |-> "File", id |-> file_id]
ModuleId_Node(did) == [tag |-> "Node", id |-> did]

\* the Resolver as one value, for the methods that take self
Resolver(dc, fsm, dm, bl, pn, nd, tc, tg, cf, irf) ==
    [did_counter |-> dc, file_sym_map |-> fsm, def_modules |-> dm, blocks |-> bl,
     parent_node |-> pn, nodes |-> nd, tags_id_counter |-> tc, tags |-> tg,
     cur_file |-> cf, ir_files |-> irf, panic |-> ""]

\* Resolver::default
Resolver_default ==
    Resolver(0, EmptyMap, EmptyMap, <<>>, None, EmptyMap, 0, EmptyMap, None, EmptyMap)

Self ==
    Resolver(did_counter, file_sym_map, def_modules, blocks, parent_node, nodes,
             tags_id_counter, tags, cur_file, ir_files)

\* a panic unwinds: the first one sticks
Panic(self, msg) == IF self.panic = "" THEN [self EXCEPT !.panic = msg] ELSE self
Ok(self) == self.panic = ""

NsMap(table, ns) == IF ns = "Value" THEN table.value ELSE table.ty

\* ---- pass 1: CollectDef

\* a faulty variant of the one below: constants filed in the type namespace
visit_item_namespace_all_ty(kind) == "Ty"

\* the match of CollectDef::visit_item: the namespace an item kind is defined in
visit_item_namespace(kind) == IF kind = "Const" THEN "Value" ELSE "Ty"

\* entry(parent).or_default(): the table of the enclosing scope
table_or_default(self, parent) ==
    IF parent.tag = "File"
    THEN IF ContainsKey(self.file_sym_map, parent.id)
         THEN self.file_sym_map[parent.id] ELSE SymbolTable
    ELSE IF ContainsKey(self.def_modules, parent.id)
         THEN self.def_modules[parent.id].resolutions ELSE SymbolTable

\* the resolver with the enclosing scope's table replaced and did taken
with_table(self, parent, did, table) ==
    IF parent.tag = "File"
    THEN [self EXCEPT !.did_counter = did + 1,
                      !.file_sym_map = Insert(@, parent.id, table)]
    ELSE [self EXCEPT !.did_counter = did + 1,
                      !.def_modules = Insert(@, parent.id, [resolutions |-> table])]

\* def_item's insert: an existing entry is overwritten, "is already defined"
\* is only logged
def_item_insert(self, parent, name, ns, did, table) ==
    IF ns = "Value"
    THEN with_table(self, parent, did, [table EXCEPT !.value = Insert(@, name, did)])
    ELSE with_table(self, parent, did, [table EXCEPT !.ty = Insert(@, name, did)])

\* CollectDef::def_item: the DefId it returns is the counter before the call
def_item(self, parent, item, ns) ==
    def_item_insert(self, parent, item.name, ns, inc_one(self.did_counter).id,
                    table_or_default(self, parent))

RECURSIVE visit_items(_, _, _)

\* ir::visit::walk_item: only a Mod holds items
walk_item(self, parent, item) ==
    IF item.kind = "Mod" THEN visit_items(self, parent, item.items) ELSE self

\* CollectDef::visit_item
visit_item(self, parent, item) ==
    IF item.kind = "Use" THEN self
    ELSE walk_item(def_item(self, parent, item, visit_item_namespace(item.kind)),
                   ModuleId_Node(self.did_counter), item)

\* ir::visit::walk_file and walk_item's loop: visit_item on every item in order
visit_items(self, parent, items) ==
    IF items = <<>> THEN self
    ELSE visit_items(visit_item(self, parent, Head(items)), parent, Tail(items))

\* CollectDef::visit_file
visit_file(self, file) == visit_items(self, ModuleId_File(file.id), file.items)

\* ---- name resolution

\* what a method hands back: the resolver after the call (its panic field set
\* if the call panicked) and the value returned
Ret(self, val) == [self |-> self, val |-> val]

\* the SymbolTable a pointer on the blocks stack points to
Deref(self, block) ==
    IF block.map = "file_sym_map" THEN self.file_sym_map[block.key]
    ELSE self.def_modules[block.key].resolutions
BlockOfFile(file_id) == [map |-> "file_sym_map", key |-> file_id]
BlockOfMod(def_id) == [map |-> "def_modules", key |-> def_id]

RECURSIVE find_map_rev(_, _, _, _)

\* the fuzzy lookup for protobuf, once the scope holds the snake-case name:
\* inner is that definition's own table
find_fuzzy(self, ns, sym, i, inner) ==
    IF ContainsKey(inner, sym) THEN Ret(self, Some(inner[sym]))
    ELSE find_map_rev(self, ns, sym, i - 1)

\* the closure of find_map in resolve_sym on the table b of block i: the
\* direct lookup, then the fuzzy one
find_in_block(self, ns, sym, i, b, snake) ==
    IF ContainsKey(b, sym) THEN Ret(self, Some(b[sym]))
    ELSE IF ~ContainsKey(b, snake) THEN find_map_rev(self, ns, sym, i - 1)
    ELSE IF ~ContainsKey(self.def_modules, b[snake])
         THEN Ret(Panic(self, "fuzzy index: no def_modules entry"), None)
    ELSE find_fuzzy(self, ns, sym, i, NsMap(self.def_modules[b[snake]].resolutions, ns))

\* blocks.iter().rev().find_map(..) from block i outwards
find_map_rev(self, ns, sym, i) ==
    IF i = 0 THEN Ret(self, None)
    ELSE find_in_block(self, ns, sym, i, NsMap(Deref(self, self.blocks[i]), ns),
                       to_snake_case(sym))

\* a faulty variant of the one below: the import aliases consulted first
resolve_sym_or_else_uses_first(self, sym, found) ==
    IF ~Ok(found.self) THEN found
    ELSE IF self.cur_file = None \/ ~ContainsKey(self.ir_files, Unwrap(self.cur_file))
         THEN Ret(Panic(self, "unwrap on None"), None)
    ELSE IF ContainsKey(self.ir_files[Unwrap(self.cur_file)].uses, sym)
         THEN Ret(self, Some(ModuleId_File(self.ir_files[Unwrap(self.cur_file)].uses[sym])))
    ELSE IF IsSome(found.val) THEN Ret(self, Some(ModuleId_Node(Unwrap(found.val))))
    ELSE Ret(self, None)

\* resolve_sym after the scopes were searched: def_id.map(ModuleId::Node), or
\* else the current file's uses
resolve_sym_or_else(self, sym, found) ==
    IF ~Ok(found.self) THEN found
    ELSE IF IsSome(found.val) THEN Ret(self, Some(ModuleId_Node(Unwrap(found.val))))
    ELSE IF self.cur_file = None \/ ~ContainsKey(self.ir_files, Unwrap(self.cur_file))
         THEN Ret(Panic(self, "unwrap on None"), None)
    ELSE IF ContainsKey(self.ir_files[Unwrap(self.cur_file)].uses, sym)
         THEN Ret(self, Some(ModuleId_File(self.ir_files[Unwrap(self.cur_file)].uses[sym])))
    ELSE Ret(self, None)

\* Resolver::resolve_sym: Option<ModuleId>
resolve_sym(self, ns, sym) ==
    resolve_sym_or_else(self, sym, find_map_rev(self, ns, sym, Len(self.blocks)))

\* lower_path's step through a file: the file's table of the caller's namespace
path_step_file(self, module_id, seg, ns) ==
    IF ~ContainsKey(self.ir_files, module_id.id) \/ ~ContainsKey(self.file_sym_map, module_id.id)
    THEN Ret(Panic(self, "unwrap on None"), module_id)
    ELSE IF ContainsKey(NsMap(self.file_sym_map[module_id.id], ns), seg)
    THEN Ret(self, ModuleId_Node(NsMap(self.file_sym_map[module_id.id], ns)[seg]))
    ELSE Ret(Panic(self, "can not find in file"), module_id)

\* lower_path's step through an enum: vs are the variants named seg, and
\* find takes the first
path_step_enum(self, module_id, seg, vs) ==
    IF vs = <<>> THEN Ret(Panic(self, "unwrap on None"), module_id)
    ELSE Ret(self, ModuleId_Node(vs[1].did))

\* lower_path's step through a mod: the mod's table of the caller's namespace
path_step_mod(self, module_id, seg, ns) ==
    IF ~ContainsKey(self.def_modules, module_id.id)
    THEN Ret(Panic(self, "index: no def_modules entry"), module_id)
    ELSE IF ContainsKey(NsMap(self.def_modules[module_id.id].resolutions, ns), seg)
    THEN Ret(self, ModuleId_Node(NsMap(self.def_modules[module_id.id].resolutions, ns)[seg]))
    ELSE Ret(Panic(self, "can not find"), module_id)

\* lower_path's step through a node, by the kind of that node
path_step_node(self, module_id, seg, ns, kind) ==
    IF kind.tag # "Item" THEN Ret(Panic(self, "invalid node"), module_id)
    ELSE IF kind.item.tag = "Enum"
    THEN path_step_enum(self, module_id, seg,
                        SelectSeq(kind.item.variants, LAMBDA v : v.name = seg))
    ELSE IF kind.item.tag = "Mod" THEN path_step_mod(self, module_id, seg, ns)
    ELSE Ret(Panic(self, "invalid item"), module_id)

\* the closure of lower_path's for_each: one step from module_id through seg
path_step(self, module_id, seg, ns) ==
    IF module_id.tag = "File" THEN path_step_file(self, module_id, seg, ns)
    ELSE IF ~ContainsKey(self.nodes, module_id.id)
    THEN Ret(Panic(self, "index: no nodes entry"), module_id)
    ELSE path_step_node(self, module_id, seg, ns, self.nodes[module_id.id].kind)

RECURSIVE path_steps(_, _, _)
\* p.segments[1..].iter().for_each(..), from the ModuleId r.val reached so far
path_steps(r, segs, ns) ==
    IF segs = <<>> \/ ~Ok(r.self) THEN r
    ELSE path_steps(path_step(r.self, r.val, Head(segs), ns), Tail(segs), ns)

DummyPath == Path("Type", 0)

\* the end of lower_path: the ModuleId reached must be a node
lower_path_end(self, ns, last) ==
    IF ~Ok(last.self) THEN Ret(last.self, DummyPath)
    ELSE IF last.val.tag = "File" THEN Ret(Panic(self, "panic!()"), DummyPath)
    ELSE Ret(self, Path(IF ns = "Value" THEN "Value" ELSE "Type", last.val.id))

\* lower_path once the first segment is resolved
lower_path_rest(self, p, ns, first) ==
    IF ~Ok(first.self) THEN Ret(first.self, DummyPath)
    ELSE IF first.val = None THEN Ret(Panic(self, "undefined ident"), DummyPath)
    ELSE lower_path_end(self, ns, path_steps(Ret(self, Unwrap(first.val)), Tail(p), ns))

\* the find_map of lower_path over [Value, Ty]: the type namespace is tried
\* when the value namespace gave nothing
lower_path_first_ty(self, p, ns, first) ==
    IF ns = "Value" /\ Ok(first.self) /\ first.val = None
    THEN lower_path_rest(self, p, ns, resolve_sym(self, "Ty", p[1]))
    ELSE lower_path_rest(self, p, ns, first)

\* Resolver::lower_path; p is the sequence of the path's segments
lower_path(self, p, ns) ==
    IF p = <<>> THEN Ret(Panic(self, "index out of bounds"), DummyPath)
    ELSE lower_path_first_ty(self, p, ns, resolve_sym(self, ns, p[1]))

\* ---- pass 2: lowering

\* Resolver::mk_node
mk_node(self, kind, tags_id) ==
    [tags |-> tags_id, parent |-> self.parent_node, file_id |-> Unwrap(self.cur_file),
     kind |-> kind]

NodeKind_Item(item) == [tag |-> "Item", item |-> item]
NodeKind_Field(f) == [tag |-> "Field", field |-> f]
NodeKind_Variant(v) == [tag |-> "Variant", variant |-> v]
NodeKind_Method(m) == [tag |-> "Method", method |-> m]

\* self.nodes.insert(did, self.mk_node(kind, tags_id)), val being handed back
insert_node(self, did, kind, tags_id, val) ==
    Ret([self EXCEPT !.nodes = Insert(@, did, mk_node(self, kind, tags_id))], val)

\* x.iter().map(..).collect(): the element h lowered after those of acc
Collect(acc, h) == Ret(h.self, Append(acc.val, h.val))

DummyTy == Ty(TyKind("Void", <<>>, None), 0)

RECURSIVE lower_type(_, _)

lower_type_container(kind, e) == Ret(e.self, TyKind(kind, <<e.val>>, None))
lower_type_map(k, v) == Ret(v.self, TyKind("Map", <<k.val, v.val>>, None))
lower_type_map_value(k, ty) == lower_type_map(k, lower_type(k.self, ty.args[2]))
lower_type_path(r) == Ret(r.self, TyKind("Path", <<>>, Some(r.val)))

\* the match of lower_type: the kind, computed before the Ty's TagId is minted
lower_type_kind(self, ty) ==
    CASE ty.kind \in {"String", "Void", "U8", "Bool", "Bytes", "I8", "I16", "I32", "I64", "F64"} ->
            Ret(self, TyKind(ty.kind, <<>>, None))
      [] ty.kind \in {"Vec", "Set"} -> lower_type_container(ty.kind, lower_type(self, ty.args[1]))
      [] ty.kind = "Map" -> lower_type_map_value(lower_type(self, ty.args[1]), ty)
      [] ty.kind = "Path" -> lower_type_path(lower_path(self, ty.path, "Ty"))
      [] ty.kind \in {"UInt64", "UInt32", "F32"} ->
            Ret(Panic(self, "not yet implemented"), DummyTy.kind)    \* todo!()

\* the end of lower_type: the TagId minted, the source tags stored under it
lower_type_tags(k, ty) ==
    Ret([k.self EXCEPT !.tags_id_counter = inc_one(@).next,
                       !.tags = Insert(@, inc_one(k.self.tags_id_counter).id, ty.tags)],
        Ty(k.val, inc_one(k.self.tags_id_counter).id))

\* Resolver::lower_type
lower_type(self, ty) == lower_type_tags(lower_type_kind(self, ty), ty)

RECURSIVE lower_types(_, _)
\* tys.iter().map(|p| self.lower_type(p)).collect()
lower_types(acc, tys) ==
    IF tys = <<>> \/ ~Ok(acc.self) THEN acc
    ELSE lower_types(Collect(acc, lower_type(acc.self, Head(tys))), Tail(tys))

\* lower_field before the type: the DefId and the TagId minted, the tags stored
lower_field_ids(self, f) ==
    [self EXCEPT !.did_counter = inc_one(@).next, !.tags_id_counter = inc_one(@).next,
                 !.tags = Insert(@, inc_one(self.tags_id_counter).id, f.tags)]

\* lower_field after the type: the Field built and its Node stored
lower_field_node(f, did, tag_id, ty) ==
    insert_node(ty.self, did,
                NodeKind_Field([did |-> did, id |-> f.id, kind |-> f.kind,
                                name |-> to_snake_case(f.name), ty |-> ty.val]),
                tag_id,
                [did |-> did, id |-> f.id, kind |-> f.kind, name |-> to_snake_case(f.name),
                 ty |-> ty.val])

\* Resolver::lower_field
lower_field(self, f) ==
    lower_field_node(f, inc_one(self.did_counter).id, inc_one(self.tags_id_counter).id,
                     lower_type(lower_field_ids(self, f), f.ty))

RECURSIVE lower_fields(_, _)
lower_fields(acc, fs) ==
    IF fs = <<>> \/ ~Ok(acc.self) THEN acc
    ELSE lower_fields(Collect(acc, lower_field(acc.self, Head(fs))), Tail(fs))

lower_message_make(s, fs) == Ret(fs.self, [tag |-> "Message", name |-> s.name, fields |-> fs.val])

\* Resolver::lower_message
lower_message(self, s) == lower_message_make(s, lower_fields(Ret(self, <<>>), s.fields))

\* the closure of lower_enum before the fields: the TagId and the DefId
\* minted, the tags stored if !v.tags.is_empty()
lower_variant_ids(self, v) ==
    [self EXCEPT !.tags_id_counter = inc_one(@).next, !.did_counter = inc_one(@).next,
                 !.tags = IF v.tags # {} THEN Insert(@, inc_one(self.tags_id_counter).id, v.tags)
                          ELSE @]

\* the closure of lower_enum after the fields: the variant built, its Node stored
lower_variant_node(v, did, tag_id, fs) ==
    insert_node(fs.self, did,
                NodeKind_Variant([id |-> v.id, did |-> did, name |-> v.name, discr |-> v.discr,
                                  fields |-> fs.val]),
                tag_id,
                [id |-> v.id, did |-> did, name |-> v.name, discr |-> v.discr,
                 fields |-> fs.val])

\* the closure of lower_enum: one variant
lower_variant(self, v) ==
    lower_variant_node(v, inc_one(self.did_counter).id, inc_one(self.tags_id_counter).id,
                       lower_types(Ret(lower_variant_ids(self, v), <<>>), v.fields))

RECURSIVE lower_variants(_, _)
lower_variants(acc, vs) ==
    IF vs = <<>> \/ ~Ok(acc.self) THEN acc
    ELSE lower_variants(Collect(acc, lower_variant(acc.self, Head(vs))), Tail(vs))

lower_enum_make(e, vs) == Ret(vs.self, [tag |-> "Enum", name |-> e.name, variants |-> vs.val])

\* Resolver::lower_enum
lower_enum(self, e) == lower_enum_make(e, lower_variants(Ret(self, <<>>), e.variants))

\* Arg { ty: self.lower_type(&a.ty), name, id }
lower_arg_make(a, ty) == Ret(ty.self, [ty |-> ty.val, name |-> a.name, id |-> a.id])

RECURSIVE lower_args(_, _)
lower_args(acc, as) ==
    IF as = <<>> \/ ~Ok(acc.self) THEN acc
    ELSE lower_args(Collect(acc, lower_arg_make(Head(as), lower_type(acc.self, Head(as).ty))),
                    Tail(as))

RECURSIVE lower_paths(_, _, _)
\* ps.iter().map(|p| self.lower_path(p, ns)): over an Option or a list of paths
lower_paths(acc, ps, ns) ==
    IF ps = <<>> \/ ~Ok(acc.self) THEN acc
    ELSE lower_paths(Collect(acc, lower_path(acc.self, Head(ps), ns)), Tail(ps), ns)

\* the closure of lower_service before the arguments
lower_method_ids(self, m) ==
    [self EXCEPT !.did_counter = inc_one(@).next, !.tags_id_counter = inc_one(@).next,
                 !.tags = Insert(@, inc_one(self.tags_id_counter).id, m.tags)]

\* the closure of lower_service at its end: the Method built, its Node stored
lower_method_node(m, def_id, tags_id, args, ret, exc) ==
    insert_node(exc.self, def_id,
                NodeKind_Method([def_id |-> def_id, source |-> "Own", name |-> m.name,
                                 args |-> args, ret |-> ret, oneway |-> m.oneway,
                                 exceptions |-> exc.val]),
                tags_id,
                [def_id |-> def_id, source |-> "Own", name |-> m.name, args |-> args,
                 ret |-> ret, oneway |-> m.oneway, exceptions |-> exc.val])

lower_method_exceptions(m, def_id, tags_id, args, ret) ==
    lower_method_node(m, def_id, tags_id, args, ret.val,
                      lower_paths(Ret(ret.self, <<>>), m.exceptions, "Ty"))

lower_method_ret(m, def_id, tags_id, args) ==
    lower_method_exceptions(m, def_id, tags_id, args.val, lower_type(args.self, m.ret))

\* the closure of lower_service: one method
lower_method(self, m) ==
    lower_method_ret(m, inc_one(self.did_counter).id, inc_one(self.tags_id_counter).id,
                     lower_args(Ret(lower_method_ids(self, m), <<>>), m.args))

RECURSIVE lower_methods(_, _)
lower_methods(acc, ms) ==
    IF ms = <<>> \/ ~Ok(acc.self) THEN acc
    ELSE lower_methods(Collect(acc, lower_method(acc.self, Head(ms))), Tail(ms))

lower_service_make(s, methods, ext) ==
    Ret(ext.self, [tag |-> "Service", name |-> s.name, methods |-> methods, extend |-> ext.val])

lower_service_extend(s, ms) ==
    lower_service_make(s, ms.val, lower_paths(Ret(ms.self, <<>>), s.extend, "Ty"))

\* Resolver::lower_service
lower_service(self, s) == lower_service_extend(s, lower_methods(Ret(self, <<>>), s.methods))

lower_type_alias_make(t, ty) == Ret(ty.self, [tag |-> "NewType", name |-> t.name, ty |-> ty.val])

\* Resolver::lower_type_alias
lower_type_alias(self, t) == lower_type_alias_make(t, lower_type(self, Unwrap(t.ty)))

\* rir::Literal
Literal(kind, path, items) == [kind |-> kind, path |-> path, items |-> items]

lower_lit_path(r) == Ret(r.self, Literal("Path", Some(r.val), <<>>))
lower_lit_items(kind, r) == Ret(r.self, Literal(kind, None, r.val))

RECURSIVE lower_lits(_, _)
\* Resolver::lower_lit; a Map literal holds its keys and values in turn
lower_lit(self, l) ==
    IF l.kind = "Path" THEN lower_lit_path(lower_path(self, l.path, "Value"))
    ELSE IF l.kind \in {"List", "Map"}
    THEN lower_lit_items(l.kind, lower_lits(Ret(self, <<>>), l.items))
    ELSE Ret(self, Literal(l.kind, None, <<>>))

lower_lits(acc, ls) ==
    IF ls = <<>> \/ ~Ok(acc.self) THEN acc
    ELSE lower_lits(Collect(acc, lower_lit(acc.self, Head(ls))), Tail(ls))

lower_const_make(c, ty, lit) ==
    Ret(lit.self, [tag |-> "Const", name |-> c.name, ty |-> ty, lit |-> lit.val])

lower_const_lit(c, ty) == lower_const_make(c, ty.val, lower_lit(ty.self, Unwrap(c.lit)))

\* Resolver::lower_const
lower_const(self, c) == lower_const_lit(c, lower_type(self, Unwrap(c.ty)))

\* ModuleId::expect_def_id on what resolve_sym found for the item's own name
expect_def_id(self, r) ==
    IF ~Ok(r.self) THEN Ret(r.self, 0)
    ELSE IF r.val = None THEN Ret(Panic(self, "can not find"), 0)
    ELSE IF Unwrap(r.val).tag = "File" THEN Ret(Panic(self, "expect def id"), 0)
    ELSE Ret(self, Unwrap(r.val).id)

\* the match of lower_item: the namespace the item's own name is looked up in
lower_item_namespace(kind) == IF kind = "Const" THEN "Value" ELSE "Ty"

\* lower_item up to expect_def_id: the DefId the item's own name resolves to
resolve_item(self, item) ==
    expect_def_id(self, resolve_sym(self, lower_item_namespace(item.kind), item.name))

\* lower_item's match on the item kind, for the kinds lowered without a scope
lower_item_kind(self, item) ==
    CASE item.kind = "Message" -> lower_message(self, item)
      [] item.kind = "Enum"    -> lower_enum(self, item)
      [] item.kind = "Service" -> lower_service(self, item)
      [] item.kind = "NewType" -> lower_type_alias(self, item)
      [] item.kind = "Const"   -> lower_const(self, item)

\* a faulty variant of the one below: the item's Node stored under a newly minted DefId
lower_item_finish_fresh_did(self, def_id, item, old_parent, item_tags) ==
    [self EXCEPT !.parent_node = old_parent,
                 !.tags_id_counter = inc_one(@).next,
                 !.did_counter = inc_one(@).next,
                 !.tags = Insert(@, inc_one(self.tags_id_counter).id, item_tags),
                 !.nodes = Insert(@, self.did_counter,
                                  [tags |-> inc_one(self.tags_id_counter).id,
                                   parent |-> old_parent,
                                   file_id |-> Unwrap(self.cur_file),
                                   kind |-> NodeKind_Item(item)])]

\* lower_item after the match: the parent restored, the item's tags and Node stored
lower_item_finish(self, def_id, item, old_parent, item_tags) ==
    [self EXCEPT !.parent_node = old_parent,
                 !.tags_id_counter = inc_one(@).next,
                 !.tags = Insert(@, inc_one(self.tags_id_counter).id, item_tags),
                 !.nodes = Insert(@, def_id,
                                  [tags |-> inc_one(self.tags_id_counter).id,
                                   parent |-> old_parent,
                                   file_id |-> Unwrap(self.cur_file),
                                   kind |-> NodeKind_Item(item)])]

lower_item_lowered(def_id, old_parent, item_tags, rir) ==
    Ret(lower_item_finish(rir.self, def_id, rir.val, old_parent, item_tags), Some(def_id))

lower_item_resolved(self, item, def_id) ==
    lower_item_lowered(def_id.val, self.parent_node, item.tags,
                       lower_item_kind([def_id.self EXCEPT !.parent_node = Some(def_id.val)],
                                       item))

\* Resolver::lower_item for every kind but Mod: Option<DefId>
lower_item(self, item) ==
    IF item.kind = "Use" THEN Ret(self, None)
    ELSE lower_item_resolved(self, item, resolve_item(self, item))

\* lower_mod before its loop: the mod's own table pushed on blocks
lower_mod_push(self, def_id) ==
    IF ~Ok(def_id.self) THEN def_id
    ELSE IF ~ContainsKey(self.def_modules, def_id.val)
    THEN Ret(Panic(self, "unwrap on None"), def_id.val)
    ELSE Ret([self EXCEPT !.parent_node = Some(def_id.val),
                          !.blocks = Append(@, BlockOfMod(def_id.val))],
             def_id.val)

\* lower_item for a Mod up to the loop of lower_mod
lower_mod_enter(self, item) == lower_mod_push(self, resolve_item(self, item))

\* a faulty variant of the one below: the mod's table left on the stack
lower_mod_exit_no_pop(self, frame) ==
    lower_item_finish(self, frame.def_id,
                      [tag |-> "Mod", name |-> frame.name, items |-> frame.out],
                      frame.old_parent, frame.tags)

\* lower_mod after its loop and lower_item after the match
lower_mod_exit(self, frame) ==
    lower_item_finish([self EXCEPT !.blocks = SubSeq(@, 1, Len(@) - 1)], frame.def_id,
                      [tag |-> "Mod", name |-> frame.name, items |-> frame.out],
                      frame.old_parent, frame.tags)

\* ---- the activation records of lower_file and lower_mod
FileFrame(file, old_file, should_pop) ==
    [kind |-> "file", rest |-> file.items, out |-> <<>>, file_id |-> file.id,
     package |-> file.package, old_file |-> old_file, should_pop |-> should_pop,
     name |-> <<>>, def_id |-> 0, old_parent |-> None, tags |-> {}]
ModFrame(item, def_id, old_parent) ==
    [kind |-> "mod", rest |-> item.items, out |-> <<>>, file_id |-> 0,
     package |-> <<>>, old_file |-> None, should_pop |-> FALSE,
     name |-> item.name, def_id |-> def_id, old_parent |-> old_parent, tags |-> item.tags]

Top == frames[Len(frames)]
Pop(stack) == SubSeq(stack, 1, Len(stack) - 1)
\* the frame on top with the item just handled taken off and its DefId kept
Advanced(frame, lowered) == [frame EXCEPT !.rest = Tail(@), !.out = @ \o lowered]

Become(s) ==
    /\ did_counter' = s.did_counter
    /\ file_sym_map' = s.file_sym_map
    /\ def_modules' = s.def_modules
    /\ blocks' = s.blocks
    /\ parent_node' = s.parent_node
    /\ nodes' = s.nodes
    /\ tags_id_counter' = s.tags_id_counter
    /\ tags' = s.tags
    /\ cur_file' = s.cur_file
    /\ ir_files' = s.ir_files

\* a panic ends resolve_files: nothing is returned
Abort(msg) ==
    /\ pc' = "panic"
    /\ panic_msg' = msg
    /\ UNCHANGED <<files, idx, frames, did_counter, file_sym_map, def_modules, blocks,
                   parent_node, nodes, tags_id_counter, tags, cur_file, ir_files, out_files,
                   result>>

\* pass 1 on one file: collect.visit_file(f); self.ir_files.insert(f.id, f)
CollectFile ==
    /\ pc = "collect"
    /\ idx <= Len(files)
    /\ Become([visit_file(Self, files[idx]) EXCEPT
                  !.ir_files = Insert(@, files[idx].id, files[idx])])
    /\ idx' = idx + 1
    /\ UNCHANGED <<files, pc, frames, panic_msg, out_files, result>>

\* pass 1 is over: the second iteration over files starts
StartLowering ==
    /\ pc = "collect"
    /\ idx > Len(files)
    /\ pc' = "lower"
    /\ idx' = 1
    /\ UNCHANGED <<files, frames, panic_msg, did_counter, file_sym_map, def_modules, blocks,
                   parent_node, nodes, tags_id_counter, tags, cur_file, ir_files, out_files,
                   result>>

\* Resolver::lower_file up to its loop
LowerFileBegin ==
    /\ pc = "lower"
    /\ frames = <<>>
    /\ idx <= Len(files)
    /\ LET file       == files[idx]
           should_pop == ContainsKey(file_sym_map, file.id)
       IN  /\ cur_file' = Some(file.id)
           /\ blocks' = IF should_pop THEN Append(blocks, BlockOfFile(file.id)) ELSE blocks
           /\ frames' = <<FileFrame(file, cur_file, should_pop)>>
    /\ UNCHANGED <<files, pc, idx, panic_msg, did_counter, file_sym_map, def_modules,
                   parent_node, nodes, tags_id_counter, tags, ir_files, out_files, result>>

\* lower_item has returned r into the loop that called it
LowerItemReturns(r) ==
    IF ~Ok(r.self) THEN Abort(r.self.panic)
    ELSE /\ Become(r.self)
         /\ frames' = [frames EXCEPT ![Len(frames)] = Advanced(@, r.val)]
         /\ UNCHANGED <<files, pc, idx, panic_msg, out_files, result>>

\* one turn of the loop of lower_file or lower_mod: lower_item on a Message,
\* Enum, Service, NewType, Const or Use
LowerItem ==
    /\ pc = "lower"
    /\ frames # <<>>
    /\ Top.rest # <<>>
    /\ Head(Top.rest).kind # "Mod"
    /\ LowerItemReturns(lower_item(Self, Head(Top.rest)))

\* lower_mod is about to loop over the mod's items
LowerModEntered(r) ==
    IF ~Ok(r.self) THEN Abort(r.self.panic)
    ELSE /\ Become(r.self)
         /\ frames' = Append(frames, ModFrame(Head(Top.rest), r.val, parent_node))
         /\ UNCHANGED <<files, pc, idx, panic_msg, out_files, result>>

\* lower_item on a Mod, into lower_mod
LowerModBegin ==
    /\ pc = "lower"
    /\ frames # <<>>
    /\ Top.rest # <<>>
    /\ Head(Top.rest).kind = "Mod"
    /\ LowerModEntered(lower_mod_enter(Self, Head(Top.rest)))

\* lower_mod returns into lower_item, which returns into the enclosing loop
LowerModEnd ==
    /\ pc = "lower"
    /\ frames # <<>>
    /\ Top.kind = "mod"
    /\ Top.rest = <<>>
    /\ Become(lower_mod_exit(Self, Top))
    /\ frames' = [Pop(frames) EXCEPT ![Len(frames) - 1] = Advanced(@, Some(Top.def_id))]
    /\ UNCHANGED <<files, pc, idx, panic_msg, out_files, result>>

\* Resolver::lower_file after its loop
LowerFileEnd ==
    /\ pc = "lower"
    /\ frames # <<>>
    /\ Top.kind = "file"
    /\ Top.rest = <<>>
    /\ blocks' = IF Top.should_pop THEN Pop(blocks) ELSE blocks
    /\ cur_file' = Top.old_file
    /\ out_files' = Insert(out_files, Top.file_id,
                           [items |-> Top.out, file_id |-> Top.file_id, package |-> Top.package])
    /\ frames' = Pop(frames)
    /\ idx' = idx + 1
    /\ UNCHANGED <<files, pc, panic_msg, did_counter, file_sym_map, def_modules, parent_node,
                   nodes, tags_id_counter, tags, ir_files, result>>

\* resolve_files returns ResolveResult { tags, files, nodes }
Return ==
    /\ pc = "lower"
    /\ frames = <<>>
    /\ idx > Len(files)
    /\ result' = Some([tags |-> tags, files |-> out_files, nodes |-> nodes])
    /\ pc' = "done"
    /\ UNCHANGED <<files, idx, frames, panic_msg, did_counter, file_sym_map, def_modules,
                   blocks, parent_node, nodes, tags_id_counter, tags, cur_file, ir_files,
                   out_files>>

\* ---- the input files tried

MaxItems == 2         \* most items in the main file

EnumE ==
    IrEnum(<<"E">>, NoTags,
           <<IrVariant(0, <<"A">>, Some(0), <<>>, NoTags),
             IrVariant(1, <<"B">>, Some(1), <<IrPrim("String")>>, {"OneOf"})>>)
MsgM ==
    IrMessage(<<"M">>, {"EntryMessage"},
              <<IrField(1, <<"a", "B">>, "Required", IrPrim("I32"), NoTags),
                IrField(2, <<"x">>, "Optional", IrPath(<<<<"E">>, <<"B">>>>), {"Repeated"})>>)
MsgX ==
    IrMessage(<<"X">>, NoTags,
              <<IrField(1, <<"f">>, "Required",
                        IrTy("Map", <<IrPrim("String"),
                                      IrTy("Vec", <<IrPath(<<<<"M">>>>)>>, <<>>, NoTags)>>,
                             <<>>, NoTags),
                        NoTags)>>)
MsgQ ==
    IrMessage(<<"Q">>, NoTags,
              <<IrField(1, <<"f">>, "Required", IrPath(<<<<"m">>, <<"M">>>>), NoTags)>>)
MsgY ==
    IrMessage(<<"Y">>, NoTags,
              <<IrField(1, <<"f">>, "Required", IrPath(<<<<"l">>, <<"E">>, <<"B">>>>), NoTags)>>)
SvcS ==
    IrService(<<"S">>, NoTags,
              <<IrMethod(<<"g">>, <<IrArg(1, <<"a">>, IrPath(<<<<"M">>>>))>>, IrPrim("Void"),
                         FALSE, Some(<<<<"M">>>>), NoTags)>>,
              <<<<<<"S">>>>>>)
NewT ==
    IrNewType(<<"T">>, NoTags,
              IrTy("Set", <<IrTy("Bytes", <<>>, <<>>, {"Repeated"})>>, <<>>, NoTags))
NewU == IrNewType(<<"U">>, NoTags, IrTy("Vec", <<IrPrim("UInt32")>>, <<>>, NoTags))
ConstC == IrConst(<<"C">>, NoTags, IrPrim("I32"), IrLit("Path", <<<<"E">>, <<"B">>>>, <<>>))
ConstE ==
    IrConst(<<"E">>, NoTags, IrTy("Vec", <<IrPrim("String")>>, <<>>, NoTags),
            IrLit("List", <<>>, <<IrLit("String", <<>>, <<>>)>>))
MsgM0 == IrMessage(<<"M">>, NoTags, <<>>)
ModM == IrMod(<<"m">>, NoTags, <<MsgM0>>)
ModL == IrMod(<<"l">>, NoTags, <<IrMessage(<<"l">>, NoTags, <<>>)>>)
ModR == IrMod(<<"r">>, NoTags, <<IrMessage(<<"m">>, NoTags, <<>>), MsgX>>)
ModM2 == IrMod(<<"m">>, NoTags, <<EnumE>>)
ModEmpty == IrMod(<<"m">>, NoTags, <<>>)
ModQ == IrMod(<<"q">>, NoTags, <<ModM, MsgQ>>)
ModK == IrMod(<<"m">>, NoTags, <<IrConst(<<"K">>, NoTags, IrPrim("I32"), IrLit("Int", <<>>, <<>>))>>)
ModP == IrMod(<<"p">>, NoTags, <<ModK>>)
ModS ==
    IrMod(<<"s">>, NoTags,
          <<MsgM0,
            IrMessage(<<"W">>, NoTags,
                      <<IrField(1, <<"f">>, "Required", IrPath(<<<<"s">>, <<"M">>>>), NoTags)>>)>>)
ConstD == IrConst(<<"D">>, NoTags, IrPrim("I32"), IrLit("Path", <<<<"p">>, <<"m">>, <<"K">>>>, <<>>))

ItemPool ==
    {EnumE, MsgM, MsgX, MsgQ, MsgY, SvcS, NewT, NewU, ConstC, ConstE, ModM, ModM2, ModEmpty,
     ModQ, ModP, ConstD, MsgM0, ModR, ModL, ModS, IrUse}

MainId == 0
LibId == 1
MainFile(items, uses) == IrFile(MainId, <<<<"a">>>>, uses, items)
LibFile == IrFile(LibId, <<<<"b">>>>, EmptyMap, <<EnumE>>)
LibAlias == (<<"l">> :> LibId)

\* the main file alone, or with the library file it imports as l before or after it
FileLists ==
    UNION {{<<MainFile(items, EmptyMap)>>,
            <<MainFile(items, LibAlias), LibFile>>,
            <<LibFile, MainFile(items, LibAlias)>>} : items \in SeqsUpTo(ItemPool, MaxItems)}

\* Resolver::default() and the call resolve_files(files)
InitResolve ==
    /\ files \in FileLists
    /\ pc = "collect"
    /\ idx = 1
    /\ frames = <<>>
    /\ panic_msg = ""
    /\ did_counter = Resolver_default.did_counter
    /\ file_sym_map = Resolver_default.file_sym_map
    /\ def_modules = Resolver_default.def_modules
    /\ blocks = Resolver_default.blocks
    /\ parent_node = Resolver_default.parent_node
    /\ nodes = Resolver_default.nodes
    /\ tags_id_counter = Resolver_default.tags_id_counter
    /\ tags = Resolver_default.tags
    /\ cur_file = Resolver_default.cur_file
    /\ ir_files = Resolver_default.ir_files
    /\ out_files = EmptyMap
    /\ result = None

IdleResolve ==
    /\ files = <<>>
    /\ pc = "idle"
    /\ idx = 1
    /\ frames = <<>>
    /\ panic_msg = ""
    /\ did_counter = 0
    /\ file_sym_map = EmptyMap
    /\ def_modules = EmptyMap
    /\ blocks = <<>>
    /\ parent_node = None
    /\ nodes = EmptyMap
    /\ tags_id_counter = 0
    /\ tags = EmptyMap
    /\ cur_file = None
    /\ ir_files = EmptyMap
    /\ out_files = EmptyMap
    /\ result = None

(***************************************************************************)
(* lower_type on its own: a source type without names lowered by a new     *)
(* resolver                                                                *)
(***************************************************************************)

VARIABLES
    lt_src,           \* Option<ir::Ty>: the source type handed to lower_type
    lt_out,           \* Option<Ty>: the Ty it returns
    lt_pc             \* "idle" | "start" | "done" | "panic"

tvars == <<lt_src, lt_out, lt_pc>>
allvars == <<vars, tvars>>

MaxSrcDepth == 2      \* deepest nesting of containers in a source type

SrcTags == {NoTags, {"Repeated"}}

RECURSIVE SrcTys(_)
\* the source types nested at most d deep, no Path among them
SrcTys(d) ==
    IF d = 0 THEN {IrTy(k, <<>>, <<>>, t) : k \in PrimKinds, t \in SrcTags}
    ELSE SrcTys(0)
         \cup {IrTy(k, <<e>>, <<>>, NoTags) : k \in {"Vec", "Set"}, e \in SrcTys(d - 1)}
         \cup {IrTy("Map", <<IrPrim(k), e>>, <<>>, NoTags) : k \in MapKeyKinds, e \in SrcTys(d - 1)}

InitLowerType ==
    /\ lt_src \in {Some(t) : t \in SrcTys(MaxSrcDepth)}
    /\ lt_out = None
    /\ lt_pc = "start"

IdleLowerType ==
    /\ lt_src = None
    /\ lt_out = None
    /\ lt_pc = "idle"

LowerTypeReturns(r) ==
    /\ Ok(r.self)
    /\ Become(r.self)
    /\ lt_out' = Some(r.val)
    /\ lt_pc' = "done"
    /\ UNCHANGED <<lt_src, files, pc, idx, frames, panic_msg, out_files, result>>

\* Resolver::lower_type returns a Ty
LowerType ==
    /\ lt_pc = "start"
    /\ LowerTypeReturns(lower_type(Self, Unwrap(lt_src)))

\* Resolver::lower_type panics
LowerTypePanic ==
    /\ lt_pc = "start"
    /\ ~Ok(lower_type(Self, Unwrap(lt_src)).self)
    /\ lt_pc' = "panic"
    /\ panic_msg' = lower_type(Self, Unwrap(lt_src)).self.panic
    /\ UNCHANGED <<lt_src, lt_out, files, pc, idx, frames, did_counter, file_sym_map,
                   def_modules, blocks, parent_node, nodes, tags_id_counter, tags, cur_file,
                   ir_files, out_files, result>>

(***************************************************************************)
(* The specifications                                                      *)
(***************************************************************************)

\* resolve_files on a list of files
Init == InitResolve /\ IdlePkg /\ IdleCodegen /\ IdleLowerType
Next ==
    \/ CollectFile /\ UNCHANGED <<pvars, cvars, tvars>>
    \/ StartLowering /\ UNCHANGED <<pvars, cvars, tvars>>
    \/ LowerFileBegin /\ UNCHANGED <<pvars, cvars, tvars>>
    \/ LowerItem /\ UNCHANGED <<pvars, cvars, tvars>>
    \/ LowerModBegin /\ UNCHANGED <<pvars, cvars, tvars>>
    \/ LowerModEnd /\ UNCHANGED <<pvars, cvars, tvars>>
    \/ LowerFileEnd /\ UNCHANGED <<pvars, cvars, tvars>>
    \/ Return /\ UNCHANGED <<pvars, cvars, tvars>>
Spec == Init /\ [][Next]_allvars

\* PkgNode::from_pkgs on a list of package paths
InitPkgTree == InitPkg /\ IdleResolve /\ IdleCodegen /\ IdleLowerType
NextPkgTree ==
    \/ PkgFromPkgs /\ UNCHANGED <<rvars, cvars, tvars>>
    \/ PkgFromPkgsPanic /\ UNCHANGED <<rvars, cvars, tvars>>
SpecPkgTree == InitPkgTree /\ [][NextPkgTree]_allvars

\* the codegen type transformers and should_lazy_static
InitTy == InitCodegen /\ IdleResolve /\ IdlePkg /\ IdleLowerType
NextTy ==
    \/ ToCodegenItemTy /\ UNCHANGED <<rvars, pvars, tvars>>
    \/ ToCodegenConstTy /\ UNCHANGED <<rvars, pvars, tvars>>
    \/ ShouldLazyStatic /\ UNCHANGED <<rvars, pvars, tvars>>
SpecCodegen == InitTy /\ [][NextTy]_allvars

\* lower_type on a source type of primitives and containers
InitLower == InitLowerType /\ IdleResolve /\ IdlePkg /\ IdleCodegen
NextLower ==
    \/ LowerType /\ UNCHANGED <<pvars, cvars>>
    \/ LowerTypePanic /\ UNCHANGED <<pvars, cvars>>
SpecLowerType == InitLower /\ [][NextLower]_allvars

(***************************************************************************)
(* What resolve_files hands back, read for the properties below            *)
(***************************************************************************)

Done == pc = "done"
ResultNodes == Unwrap(result).nodes
ResultTags == Unwrap(result).tags
MainItems == files[CHOOSE i \in 1..Len(files) : files[i].id = MainId].items

RECURSIVE TyTagIds(_)
\* the TagIds of a Ty and of the Tys nested in it
TyTagIds(ty) ==
    {ty.tags_id} \cup UNION {TyTagIds(ty.kind.args[i]) : i \in DOMAIN ty.kind.args}

RECURSIVE TyPaths(_)
\* the Paths of a Ty and of the Tys nested in it
TyPaths(ty) ==
    Range(ty.kind.path) \cup UNION {TyPaths(ty.kind.args[i]) : i \in DOMAIN ty.kind.args}

RECURSIVE LitPaths(_)
LitPaths(lit) == Range(lit.path) \cup UNION {LitPaths(lit.items[i]) : i \in DOMAIN lit.items}

MethodTys(m) == {m.ret} \cup {m.args[i].ty : i \in DOMAIN m.args}

\* the Tys an item holds directly or in its fields, variants and methods
ItemTys(item) ==
    CASE item.tag = "Message" -> {item.fields[i].ty : i \in DOMAIN item.fields}
      [] item.tag = "Enum"    -> UNION {Range(item.variants[i].fields) : i \in DOMAIN item.variants}
      [] item.tag = "Service" -> UNION {MethodTys(item.methods[i]) : i \in DOMAIN item.methods}
      [] item.tag = "NewType" -> {item.ty}
      [] item.tag = "Const"   -> {item.ty}
      [] item.tag = "Mod"     -> {}

\* the Paths an item holds outside its Tys
ItemOwnPaths(item) ==
    CASE item.tag = "Service" ->
             Range(item.extend)
             \cup UNION {Range(item.methods[i].exceptions) : i \in DOMAIN item.methods}
      [] item.tag = "Const"   -> LitPaths(item.lit)
      [] OTHER                -> {}

NodeTys(node) ==
    CASE node.kind.tag = "Item"    -> ItemTys(node.kind.item)
      [] node.kind.tag = "Field"   -> {node.kind.field.ty}
      [] node.kind.tag = "Variant" -> Range(node.kind.variant.fields)
      [] node.kind.tag = "Method"  -> MethodTys(node.kind.method)

NodePaths(node) ==
    UNION {TyPaths(ty) : ty \in NodeTys(node)}
    \cup CASE node.kind.tag = "Item"   -> ItemOwnPaths(node.kind.item)
           [] node.kind.tag = "Method" -> Range(node.kind.method.exceptions)
           [] OTHER                    -> {}

(***************************************************************************)
(* The properties                                                          *)
(***************************************************************************)

\* C1: once resolve_files has returned, the keys of the node table are
\* exactly the DefIds minted so far (0 .. did_counter - 1), also when two
\* items of one scope share a name.
C1_NodesAreTheMintedDefIds ==
    Done => DOMAIN ResultNodes = 0 .. (did_counter - 1)

\* C2: every TagId held by a Node and every tags_id held by a Ty of the
\* result is a key of the returned tags map, whatever the tag bags hold.
C2_TagIdsAreKeysOfTags ==
    Done =>
        \A d \in DOMAIN ResultNodes :
            /\ ResultNodes[d].tags \in DOMAIN ResultTags
            /\ \A ty \in NodeTys(ResultNodes[d]) : TyTagIds(ty) \subseteq DOMAIN ResultTags

\* C3: every Path of the result carries a DefId that is a key of the node
\* table.
C3_PathsPointAtNodes ==
    Done =>
        \A d \in DOMAIN ResultNodes :
            \A p \in NodePaths(ResultNodes[d]) : p.did \in DOMAIN ResultNodes

\* a field typed by a path to an enum variant has been lowered to a Path at
\* the Node of that variant
C3_Witness ==
    /\ Done
    /\ \E d \in DOMAIN ResultNodes :
           /\ ResultNodes[d].kind.tag = "Field"
           /\ \E p \in NodePaths(ResultNodes[d]) :
                  /\ p.did \in DOMAIN ResultNodes
                  /\ ResultNodes[p.did].kind.tag = "Variant"

RECURSIVE AllPkgNodes(_)
\* the nodes of a forest of PkgNodes
AllPkgNodes(forest) ==
    UNION {{forest[i]} \cup AllPkgNodes(forest[i].children) : i \in DOMAIN forest}

IsPrefix(pre, path) == Len(pre) <= Len(path) /\ SubSeq(path, 1, Len(pre)) = pre

RECURSIVE FirstAppearances(_, _)
\* the elements of s not in seen, each once, in the order they first appear
FirstAppearances(s, seen) ==
    IF s = <<>> THEN <<>>
    ELSE IF Head(s) \in seen THEN FirstAppearances(Tail(s), seen)
    ELSE <<Head(s)>> \o FirstAppearances(Tail(s), seen \cup {Head(s)})

\* the segments that follow parent_path in the input paths, in input order
NextSegments(parent_path) ==
    LET longer == SelectSeq(pkgs, LAMBDA p : Len(p) > Len(parent_path) /\ IsPrefix(parent_path, p))
    IN  [i \in DOMAIN longer |-> longer[i][Len(parent_path) + 1]]

\* what a trie has at the children of parent_path
SiblingsAreATrieLevel(parent_path, forest) ==
    /\ \A i, j \in DOMAIN forest : i # j => forest[i].path # forest[j].path
    /\ \A i \in DOMAIN forest :
           /\ Len(forest[i].path) = Len(parent_path) + 1
           /\ IsPrefix(parent_path, forest[i].path)
    /\ [i \in DOMAIN forest |-> PkgNode_ident(forest[i])]
           = FirstAppearances(NextSegments(parent_path), {})

\* C4: from_pkgs builds a trie of any list of non-empty paths in any order:
\* no two siblings share a path, siblings stand in the order their segment
\* first appears in the input, a node's path is its parent's path and one
\* segment more, and every input path is the path of some node.
C4_FromPkgsBuildsATrie ==
    pkg_pc = "done" =>
        /\ SiblingsAreATrieLevel(<<>>, pkg_tree)
        /\ \A n \in AllPkgNodes(pkg_tree) : SiblingsAreATrieLevel(n.path, n.children)
        /\ \A i \in DOMAIN pkgs : \E n \in AllPkgNodes(pkg_tree) : n.path = pkgs[i]

\* the items of the pool that resolve_files lowers when each is alone in a file
SelfContained == {EnumE, NewT, ConstE, ModM, ModM2, ModQ}

\* the namespace a kind of item belongs to: constants are values, the rest types
NamespaceOfKind(kind) == IF kind = "Const" THEN "Value" ELSE "Ty"

\* the main file is two self-contained items of one name and one namespace
IsRedefinition ==
    /\ Len(MainItems) = 2
    /\ MainItems[1] \in SelfContained
    /\ MainItems[2] \in SelfContained
    /\ MainItems[1].name = MainItems[2].name
    /\ NamespaceOfKind(MainItems[1].kind) = NamespaceOfKind(MainItems[2].kind)

\* C5: a second definition of a name in the same scope and namespace never
\* makes resolve_files panic, whatever the kinds of the two items (Mod
\* included): the later definition wins and both items are lowered.
C5_RedefinitionNeverPanics ==
    IsRedefinition =>
        /\ pc # "panic"
        /\ Done =>
               LET d == NsMap(file_sym_map[MainId], NamespaceOfKind(MainItems[2].kind))
                            [MainItems[2].name]
               IN  /\ d \in DOMAIN ResultNodes
                   /\ ResultNodes[d].kind.item.tag = MainItems[2].kind

RECURSIVE SameKinds(_, _)
\* the lowered Ty has the kind of the source type, container by container
SameKinds(src, out) ==
    /\ out.kind.kind = src.kind
    /\ Len(out.kind.args) = Len(src.args)
    /\ \A i \in DOMAIN src.args : SameKinds(src.args[i], out.kind.args[i])

RECURSIVE CountTys(_)
\* how many Tys a Ty is made of, itself included
CountTys(ty) ==
    IF ty.kind.args = <<>> THEN 1
    ELSE IF Len(ty.kind.args) = 1 THEN 1 + CountTys(ty.kind.args[1])
    ELSE 1 + CountTys(ty.kind.args[1]) + CountTys(ty.kind.args[2])

\* C6: lower_type is total on primitives and containers: every primitive
\* kind (UInt32, UInt64 and F32 among them) lowers to the RIR kind of the same
\* name, a container lowers to the same container of its lowered elements,
\* and every Ty produced has a TagId of its own that is a key of tags.
C6_LowerTypeIsTotal ==
    lt_pc \in {"done", "panic"} =>
        /\ lt_pc = "done"
        /\ SameKinds(Unwrap(lt_src), Unwrap(lt_out))
        /\ TyTagIds(Unwrap(lt_out)) \subseteq DOMAIN tags
        /\ Cardinality(TyTagIds(Unwrap(lt_out))) = CountTys(Unwrap(lt_out))

Containers == {"Vec", "Set", "Map"}

\* to_codegen_const_ty has returned cg_out for cg_ty
ConstConverted == cg_pc \in {"converted", "asked"} /\ cg_tf = "Const"

\* the elements of the converted type as the transformer tf converts them
ElementsBy(tf) ==
    [i \in DOMAIN Unwrap(cg_ty).args |-> codegen_item_ty(tf, cx, Unwrap(cg_ty).args[i].kind)]

\* C7 as stated: the const-context transformer maps String to Str, and Vec,
\* Set and Map to StaticRef(container<...>) whose elements are converted as
\* the default (item-context) transformer converts them.
C7_ConstElementsByDefault ==
    ConstConverted =>
        /\ Unwrap(cg_ty).kind = "String" => cg_out = CodegenTy("Str", <<>>)
        /\ Unwrap(cg_ty).kind \in Containers =>
               cg_out = CodegenTy("StaticRef",
                                  <<CodegenTy(Unwrap(cg_ty).kind, ElementsBy("Default"))>>)

\* C7 amended: the const-context transformer maps String to Str, and Vec,
\* Set and Map to StaticRef(container<...>) whose elements are converted by
\* the const-context transformer itself: a String element becomes Str and a
\* nested container is wrapped in StaticRef again.
C7_ConstElementsByConst ==
    ConstConverted =>
        /\ Unwrap(cg_ty).kind = "String" => cg_out = CodegenTy("Str", <<>>)
        /\ Unwrap(cg_ty).kind \in Containers =>
               cg_out = CodegenTy("StaticRef",
                                  <<CodegenTy(Unwrap(cg_ty).kind, ElementsBy("Const"))>>)

\* list<list<string>> converted in const context
C7_Witness ==
    /\ ConstConverted
    /\ Unwrap(cg_ty) = TyKind("Vec", <<Ty(TyKind("Vec", <<Ty(TyKind("String", <<>>, None), 0)>>,
                                                 None), 0)>>, None)
    /\ cg_out = CodegenTy("StaticRef",
                    <<CodegenTy("Vec",
                        <<CodegenTy("StaticRef",
                            <<CodegenTy("Vec", <<CodegenTy("Str", <<>>)>>)>>)>>)>>)

RECURSIVE InnermostTy(_)
\* a CodegenTy with the NewType adts around it taken off
InnermostTy(c) ==
    IF c.tag = "Adt" /\ Unwrap(c.adt).kind = "NewType"
    THEN InnermostTy(Unwrap(Unwrap(c.adt).inner))
    ELSE c

\* C8: should_lazy_static is true exactly for String, StaticRef, LazyStaticRef,
\* Vec, Map and a NewType adt whose inner type satisfies it, false for every
\* other CodegenTy; so the const-context type of every Vec, Set or Map
\* satisfies it.
C8_ShouldLazyStatic ==
    cg_pc = "asked" =>
        /\ Unwrap(cg_lazy) <=>
               InnermostTy(cg_out).tag \in {"String", "StaticRef", "LazyStaticRef", "Vec", "Map"}
        /\ (cg_tf = "Const" /\ Unwrap(cg_ty).kind \in Containers) => Unwrap(cg_lazy)

\* should_lazy_static asked of StaticRef(Vec(Str)), the const-context type of
\* list<string>
C8_Witness ==
    /\ cg_pc = "asked"
    /\ cg_tf = "Const"
    /\ Unwrap(cg_ty) = TyKind("Vec", <<Ty(TyKind("String", <<>>, None), 0)>>, None)
    /\ cg_out = CodegenTy("StaticRef", <<CodegenTy("Vec", <<CodegenTy("Str", <<>>)>>)>>)
    /\ cg_lazy = Some(TRUE)

\* the Nodes of the variants called name
VariantsNamed(name) ==
    {d \in DOMAIN ResultNodes :
        /\ ResultNodes[d].kind.tag = "Variant"
        /\ ResultNodes[d].kind.variant.name = name}

\* C9: with enum E { A, B } at file scope, the two-segment path E.B of a
\* field's type resolves in the type namespace to Path{Type, did}, did being
\* the DefId of variant B and of neither E nor variant A.
C9_EnumVariantPath ==
    (EnumE \in Range(MainItems) /\ MsgM \in Range(MainItems)) =>
        /\ pc # "panic"
        /\ Done =>
               \E d \in DOMAIN ResultNodes :
                   /\ ResultNodes[d].kind.tag = "Field"
                   /\ ResultNodes[d].kind.field.name = <<"x">>
                   /\ \E b \in VariantsNamed(<<"B">>) :
                          /\ ResultNodes[d].kind.field.ty.kind.path = Some(Path("Type", b))
                          /\ b \notin VariantsNamed(<<"A">>)
                          /\ ResultNodes[b].parent # Some(b)

RECURSIVE DefinedItems(_)
\* the items pass 1 defines, in the order it visits them
DefinedItems(items) ==
    IF items = <<>> THEN <<>>
    ELSE IF Head(items).kind = "Use" THEN DefinedItems(Tail(items))
    ELSE <<Head(items)>> \o DefinedItems(Head(items).items) \o DefinedItems(Tail(items))

\* the item pass 1 minted DefId d for
ItemOfDefId(d) == FlatMap([i \in DOMAIN files |-> DefinedItems(files[i].items)],
                          [i \in DOMAIN files |-> i])[d + 1]

AllTables ==
    {file_sym_map[f] : f \in DOMAIN file_sym_map}
    \cup {def_modules[d].resolutions : d \in DOMAIN def_modules}

TypeKinds == {"Message", "Enum", "Service", "NewType", "Mod"}

\* C10: in every symbol table, of a file or of a mod, the value map holds
\* DefIds of Const items only and the ty map holds DefIds of Message, Enum,
\* Service, NewType and Mod items only, each under the item's name; a Const
\* and a type of one spelling are both in their scope's table.
C10_NamespacesNotCrossPopulated ==
    /\ \A t \in AllTables :
           /\ \A sym \in DOMAIN t.value :
                  /\ ItemOfDefId(t.value[sym]).kind = "Const"
                  /\ ItemOfDefId(t.value[sym]).name = sym
                  /\ (Done /\ t.value[sym] \in DOMAIN ResultNodes) =>
                         /\ ResultNodes[t.value[sym]].kind.tag = "Item"
                         /\ ResultNodes[t.value[sym]].kind.item.tag = "Const"
           /\ \A sym \in DOMAIN t.ty :
                  /\ ItemOfDefId(t.ty[sym]).kind \in TypeKinds
                  /\ ItemOfDefId(t.ty[sym]).name = sym
                  /\ (Done /\ t.ty[sym] \in DOMAIN ResultNodes) =>
                         /\ ResultNodes[t.ty[sym]].kind.tag = "Item"
                         /\ ResultNodes[t.ty[sym]].kind.item.tag \in TypeKinds
    /\ pc \in {"lower", "done"} =>
           \A i \in DOMAIN MainItems :
               MainItems[i].kind # "Use" =>
                   MainItems[i].name
                       \in DOMAIN NsMap(file_sym_map[MainId], NamespaceOfKind(MainItems[i].kind))

\* an enum E and a constant E of one file, both lowered, each under its own DefId
C10_Witness ==
    /\ Done
    /\ MainId \in DOMAIN file_sym_map
    /\ <<"E">> \in DOMAIN file_sym_map[MainId].value
    /\ <<"E">> \in DOMAIN file_sym_map[MainId].ty
    /\ ResultNodes[file_sym_map[MainId].value[<<"E">>]].kind.item.tag = "Const"
    /\ ResultNodes[file_sym_map[MainId].ty[<<"E">>]].kind.item.tag = "Enum"

\* the item at position i of the main file is a and a later one is b
Before(a, b) ==
    \E i, j \in DOMAIN MainItems : i < j /\ MainItems[i] = a /\ MainItems[j] = b

\* the Nodes of the items of kind tag called name
ItemsNamed(tag, name) ==
    {d \in DOMAIN ResultNodes :
        /\ ResultNodes[d].kind.tag = "Item"
        /\ ResultNodes[d].kind.item.tag = tag
        /\ ResultNodes[d].kind.item.name = name}

\* C11: in a path of three segments the steps before the last look the
\* segment up in the type namespace and only the last one in the caller's:
\* with mod p { mod m { const K } } lowered, the value path p.m.K of a
\* constant's literal resolves to Path{Value, did of K}.
C11_IntermediateStepsInTy ==
    Before(ModP, ConstD) =>
        /\ pc # "panic"
        /\ Done =>
               \E d \in ItemsNamed("Const", <<"D">>), k \in ItemsNamed("Const", <<"K">>) :
                   ResultNodes[d].kind.item.lit.path = Some(Path("Value", k))

\* the Paths of the fields called name
FieldPaths(name) ==
    UNION {NodePaths(ResultNodes[d]) :
              d \in {f \in DOMAIN ResultNodes :
                        /\ ResultNodes[f].kind.tag = "Field"
                        /\ ResultNodes[f].kind.field.name = name}}

\* C12: the fuzzy fallback of resolve_sym never fails: when the snake-case
\* form of the symbol names something that is no mod with resolutions, or a
\* mod that lacks the symbol, the scope gives no match and the next outer
\* scope is searched; in message M, mod r { message m, message X { f: ..M.. } }
\* the M of X.f is the M of the file.
C12_FuzzyFallbackNeverFails ==
    /\ ~(pc = "panic" /\ panic_msg = "fuzzy index: no def_modules entry")
    /\ (MainItems = <<MsgM0, ModR>> /\ Done) =>
           \E m \in ItemsNamed("Message", <<"M">>) :
               /\ ResultNodes[m].parent = None
               /\ FieldPaths(<<"f">>) = {Path("Type", m)}

\* the names the inputs define or refer to
Symbols ==
    {<<"E">>, <<"M">>, <<"X">>, <<"Q">>, <<"Y">>, <<"S">>, <<"T">>, <<"U">>, <<"C">>, <<"D">>,
     <<"K">>, <<"W">>, <<"A">>, <<"B">>, <<"m">>, <<"q">>, <<"p">>, <<"r">>, <<"s">>, <<"l">>}

\* the table of namespace ns that scope i of the stack points to
ScopeMap(i, ns) ==
    NsMap(IF blocks[i].map = "file_sym_map" THEN file_sym_map[blocks[i].key]
          ELSE def_modules[blocks[i].key].resolutions, ns)

\* the fuzzy match of sym in scope i: the entry of sym in the resolutions of
\* what the snake-case form of sym names there
FuzzyMatch(i, ns, sym) ==
    IF /\ to_snake_case(sym) \in DOMAIN ScopeMap(i, ns)
       /\ ScopeMap(i, ns)[to_snake_case(sym)] \in DOMAIN def_modules
    THEN Get(NsMap(def_modules[ScopeMap(i, ns)[to_snake_case(sym)]].resolutions, ns), sym)
    ELSE None

\* what scope i alone gives for sym: the direct entry, else the fuzzy one
ScopeMatch(i, ns, sym) ==
    IF sym \in DOMAIN ScopeMap(i, ns) THEN Some(ScopeMap(i, ns)[sym])
    ELSE FuzzyMatch(i, ns, sym)

MatchingScopes(ns, sym) == {i \in DOMAIN blocks : ScopeMatch(i, ns, sym) # None}
Innermost(scopes) == CHOOSE i \in scopes : \A j \in scopes : j <= i
CurrentUses == ir_files[Unwrap(cur_file)].uses

\* the innermost matching scope's match, and the import alias only when no
\* scope matches
ExpectedResolution(ns, sym) ==
    IF MatchingScopes(ns, sym) # {}
    THEN Some(ModuleId_Node(Unwrap(ScopeMatch(Innermost(MatchingScopes(ns, sym)), ns, sym))))
    ELSE IF sym \in DOMAIN CurrentUses THEN Some(ModuleId_File(CurrentUses[sym]))
    ELSE None

\* r, what resolve_sym returned for sym in ns, is what the scopes determine
\* and leaves the resolver so that the same call returns the same
ResolvedAsExpected(r, ns, sym) ==
    Ok(r.self) =>
        /\ r.val = ExpectedResolution(ns, sym)
        /\ r.self = Self
        /\ resolve_sym(r.self, ns, sym) = r

\* C13: whatever resolve_sym returns is the match of the innermost scope that
\* matches, directly or else fuzzily, so an inner definition shadows an outer
\* one of the same name; the file's uses are consulted only when no scope
\* matches; the call leaves the resolver as it was, and resolving the symbol
\* again with the same scope stack gives the same result.
C13_InnermostScopeWins ==
    (pc = "lower" /\ frames # <<>>) =>
        \A ns \in {"Value", "Ty"}, sym \in Symbols :
            ResolvedAsExpected(resolve_sym(Self, ns, sym), ns, sym)

\* inside mod l { message l } of a file that imports a file as l: the file
\* defines l, the mod defines l, and l resolves to the mod's own l
C13_Witness ==
    /\ pc = "lower"
    /\ Len(blocks) = 2
    /\ <<"l">> \in DOMAIN CurrentUses
    /\ MatchingScopes("Ty", <<"l">>) = {1, 2}
    /\ ScopeMatch(1, "Ty", <<"l">>) # ScopeMatch(2, "Ty", <<"l">>)
    /\ resolve_sym(Self, "Ty", <<"l">>).val
           = Some(ModuleId_Node(Unwrap(ScopeMatch(2, "Ty", <<"l">>))))

\* the scope of the file being lowered, if pass 1 made it a table
FileScope(file_id) ==
    IF file_id \in DOMAIN file_sym_map THEN <<BlockOfFile(file_id)>> ELSE <<>>

\* the scopes of the mods being lowered, outermost first
ModScopes == [j \in 1..(Len(frames) - 1) |-> BlockOfMod(frames[j + 1].def_id)]

\* C14: the scoped state of the resolver is balanced: while the items of a
\* file are lowered, between one lower_item and the next, the stack holds the
\* file's table followed by the tables of the mods being lowered in nesting
\* order, cur_file is that file and parent_node the innermost such mod (none
\* at file level), so each lower_item returns with all three as they were
\* before it; between files and after resolve_files the stack is empty and
\* cur_file and parent_node are None.
C14_ScopedStateBalanced ==
    /\ (pc = "lower" /\ frames # <<>>) =>
           /\ blocks = FileScope(frames[1].file_id) \o ModScopes
           /\ cur_file = Some(frames[1].file_id)
           /\ parent_node = IF Len(frames) = 1 THEN None ELSE Some(Top.def_id)
    /\ (pc \in {"lower", "done"} /\ frames = <<>>) =>
           /\ blocks = <<>>
           /\ cur_file = None
           /\ parent_node = None

\* an item nested in two mods is about to be lowered
C14_Witness ==
    /\ pc = "lower"
    /\ Len(frames) = 3
    /\ Top.rest # <<>>
    /\ Len(blocks) = 3
    /\ blocks[1].map = "file_sym_map"
    /\ blocks[2] # blocks[3]

\* C15: a qualified path resolves to the Node of the item it names whether
\* that item is declared before or after the reference: mod.Item (m.M from
\* message Q), importedFile.Enum.Variant (l.E.B from message Y, the imported
\* file before or after the importing one in the list), and a mod's own item
\* by its qualified name from inside the mod (s.M in mod s).
C15_DeclarationOrderIndependent ==
    /\ MainItems \in {<<ModM, MsgQ>>, <<MsgQ, ModM>>} =>
           /\ pc # "panic"
           /\ Done => \E m \in ItemsNamed("Message", <<"M">>) :
                          FieldPaths(<<"f">>) = {Path("Type", m)}
    /\ (MainItems = <<MsgY>> /\ Len(files) = 2) =>
           /\ pc # "panic"
           /\ Done => \E b \in VariantsNamed(<<"B">>) :
                          FieldPaths(<<"f">>) = {Path("Type", b)}
    /\ MainItems = <<ModS>> =>
           /\ pc # "panic"
           /\ Done => \E m \in ItemsNamed("Message", <<"M">>) :
                          FieldPaths(<<"f">>) = {Path("Type", m)}

\* C16: a file or a mod with no nameable definitions lowers successfully:
\* when the main file holds nothing but Use items and mods without items,
\* resolve_files completes with the scope stack empty, the Use items
\* contributing no Node and each such mod exactly its own Node, an Item of
\* kind Mod with no items, at file level.
C16_EmptyFileOrModLowers ==
    (Range(MainItems) \subseteq {IrUse, ModEmpty}) =>
        /\ pc # "panic"
        /\ Done =>
               /\ blocks = <<>>
               /\ \A d \in DOMAIN ResultNodes :
                      ResultNodes[d].file_id = MainId =>
                          /\ ResultNodes[d].kind.tag = "Item"
                          /\ ResultNodes[d].kind.item.tag = "Mod"
                          /\ ResultNodes[d].kind.item.items = <<>>
                          /\ ResultNodes[d].parent = None
               /\ Cardinality({d \in DOMAIN ResultNodes : ResultNodes[d].file_id = MainId})
                      = Cardinality({i \in DOMAIN MainItems : MainItems[i] = ModEmpty})

====
